---- MODULE Spec2Model ----
(***************************************************************************)
(* The change-detection catalog of fswalk (src/src/main.rs): one run of    *)
(* main() resets the `new` flag, upserts every regular file found by the   *)
(* walk under one generation timestamp, commits, writes the report and     *)
(* then deletes the rows the scan did not touch.                           *)
(***************************************************************************)
EXTENDS Integers, Sequences, FiniteSets, TLC

\* ------------------------------------------------------------------ bounds
\* wall-clock readings are counted in ticks; MaxNow is the last reading
MaxNow == 4
\* number of runs of main() that are followed
MaxRuns == 2
\* ticks per second: Duration::as_secs() drops the sub-second part
TicksPerSecond == 2
\* largest file length reported by metadata.len()
MaxSize == 1
\* largest creation / modification time (seconds since the epoch, >= 1)
MaxTime == 1
\* modulus of the stand-in for the 64-bit hash
HashMod == 6

\* ------------------------------------------------------------------ paths
\* a path is the sequence of its bytes
PathA == <<"/", "a">>
PathB == <<"/", "d", "/", "b">>
Paths == {PathA, PathB}

\* byte values of the characters that occur in Paths
Byte(c) ==
  CASE c = "/" -> 1
    [] c = "a" -> 2
    [] c = "b" -> 3
    [] c = "d" -> 4

RECURSIVE SumBytes(_)
SumBytes(s) == IF s = <<>> THEN 0 ELSE Byte(Head(s)) + SumBytes(Tail(s))

\* xxh3_64(path bytes).to_string(): a deterministic function of the bytes
\* that is not injective (PathA and PathB collide)
xxh3_64(s) == SumBytes(s) % HashMod

\* entry.file_name: the bytes after the last "/"
RECURSIVE file_name(_)
file_name(s) ==
  IF s = <<>> THEN <<>>
  ELSE IF s[Len(s)] = "/" THEN <<>>
  ELSE Append(file_name(SubSeq(s, 1, Len(s) - 1)), s[Len(s)])

\* --------------------------------------------------------------- metadata
Sizes == 0..MaxSize
Times == 1..MaxTime
\* what data.created() / data.modified() can return: Ok(time) or Err
TimeResults == [ok : BOOLEAN, secs : Times]
\* what entry.metadata() can return for a regular file: Ok(data) or Err
MetadataResults ==
  [ok : BOOLEAN, len : Sizes, created : TimeResults, modified : TimeResults]

\* time.duration_since(UNIX_EPOCH).unwrap().as_secs(), 0 on Err
SecsOrZero(t) == IF t.ok THEN t.secs ELSE 0

\* process_dir_entry that keeps the length field when metadata() is Err
process_dir_entry_len(p, md) ==
  [ hash     |-> xxh3_64(p),
    path     |-> p,
    size     |-> md.len,
    created  |-> IF md.ok THEN SecsOrZero(md.created) ELSE 0,
    modified |-> IF md.ok THEN SecsOrZero(md.modified) ELSE 0,
    plen     |-> Len(p),
    flen     |-> Len(file_name(p)) ]

\* struct Datei as built by process_dir_entry
process_dir_entry(p, md) ==
  [ hash     |-> xxh3_64(p),
    path     |-> p,
    size     |-> IF md.ok THEN md.len ELSE 0,
    created  |-> IF md.ok THEN SecsOrZero(md.created) ELSE 0,
    modified |-> IF md.ok THEN SecsOrZero(md.modified) ELSE 0,
    plen     |-> Len(p),
    flen     |-> Len(file_name(p)) ]

\* SystemTime::now().duration_since(UNIX_EPOCH).unwrap().as_secs()
as_secs(ticks) == ticks \div TicksPerSecond

\* ------------------------------------------------------------------ table
\* the key of a row or of a Datei: PRIMARY KEY (hash, path)
Key(r) == <<r.hash, r.path>>

\* the row the INSERT proposes (the `excluded` row of the upsert)
Excluded(d, ts) ==
  [ hash |-> d.hash, path |-> d.path, size |-> d.size, created |-> d.created,
    modified |-> d.modified, plen |-> d.plen, flen |-> d.flen,
    timestamp |-> ts, last_seen |-> ts, new |-> 1 ]

\* the update with a CASE that compares size alone
DoUpdateSizeOnly(r, e) ==
  [ r EXCEPT !.size = e.size, !.created = e.created, !.modified = e.modified,
             !.plen = e.plen, !.flen = e.flen, !.last_seen = e.last_seen,
             !.timestamp = IF r.size # e.size
                           THEN e.timestamp ELSE r.timestamp,
             !.new = 0 ]

\* the update with a CASE that also compares created
DoUpdateCreated(r, e) ==
  [ r EXCEPT !.size = e.size, !.created = e.created, !.modified = e.modified,
             !.plen = e.plen, !.flen = e.flen, !.last_seen = e.last_seen,
             !.timestamp = IF r.size # e.size \/ r.modified # e.modified
                              \/ r.created # e.created
                           THEN e.timestamp ELSE r.timestamp,
             !.new = 0 ]

\* ON CONFLICT(hash, path) DO UPDATE SET ...: the row r after the update
DoUpdate(r, e) ==
  [ r EXCEPT !.size = e.size, !.created = e.created, !.modified = e.modified,
             !.plen = e.plen, !.flen = e.flen, !.last_seen = e.last_seen,
             !.timestamp = IF r.size # e.size \/ r.modified # e.modified
                           THEN e.timestamp ELSE r.timestamp,
             !.new = 0 ]

\* rows of table t that conflict with e on the primary key
Conflicts(t, e) == {r \in t : Key(r) = Key(e)}

\* a plain INSERT into a table without the primary key
UpsertNoConflict(t, d, ts) == t \cup {Excluded(d, ts)}

\* insert.execute(params![...]) on table t
Upsert(t, d, ts) ==
  LET e == Excluded(d, ts) IN
  IF Conflicts(t, e) = {} THEN t \cup {e}
  ELSE {IF r \in Conflicts(t, e) THEN DoUpdate(r, e) ELSE r : r \in t}

\* a run that leaves out the reset
ResetNewNone(t) == t

\* UPDATE files SET new = 0
ResetNew(t) == {[r EXCEPT !.new = 0] : r \in t}

\* a run without the DELETE
SweepNone(t, ts) == t

\* DELETE FROM files WHERE last_seen <> ?1
Sweep(t, ts) == {r \in t : ~(r.last_seen # ts)}

\* a transaction that keeps its changes when dropped
RollbackKeep(working, committed) == working

\* dropping an uncommitted Transaction (DropBehavior::Rollback), and what a
\* reopened database shows after a stop: the last committed content
Rollback(working, committed) == committed

\* tx.commit(): the working content becomes the committed content
CommitTx(working, committed) == working

\* process_row: the columns the report reads
process_row(r) ==
  [ hash |-> r.hash, path |-> r.path, size |-> r.size, created |-> r.created,
    modified |-> r.modified, plen |-> r.plen, flen |-> r.flen ]

\* the deleted query comparing the timestamp column
QueryDeletedByTimestamp(t, ts) ==
  {process_row(r) : r \in {x \in t : x.timestamp # ts}}

\* the three classification queries of write_to_file
QueryNew(t) == {process_row(r) : r \in {x \in t : x.new = 1}}
\* the modified query without its `AND new = 0`
QueryModifiedAnyNew(t, ts) ==
  {process_row(r) : r \in {x \in t : x.timestamp = ts}}

QueryModified(t, ts) ==
  {process_row(r) : r \in {x \in t : x.timestamp = ts /\ x.new = 0}}
QueryDeleted(t, ts) == {process_row(r) : r \in {x \in t : x.last_seen # ts}}

\* build_table: None when the query yields no row, else the table of its rows
build_table(rows) == [some |-> rows # {}, records |-> rows]

\* SELECT COUNT(*) FROM files
QueryCount(t) == Cardinality(t)

\* no write_to_file has returned yet
NoReport ==
  [made |-> FALSE, err |-> FALSE, count |-> 0,
   new |-> {}, modified |-> {}, deleted |-> {}]

\* ------------------------------------------------------------------ state
VARIABLES
  files,      \* table `files` as the open connection sees it
  disk,       \* the committed content of files.db
  pc,         \* position of main(): idle, walk, report, sweep, index
  now,        \* the last wall-clock reading, in ticks
  timestamp,  \* generation of the running (or last) scan, in seconds
  pre,        \* table content when the running (or last) scan began
  seen,       \* the Datei values upserted by the running (or last) scan
  visited,    \* paths the walk has yielded so far
  report,     \* result sets of the last write_to_file
  outcome,    \* how the last run ended
  prev,       \* outcome, seen and timestamp of the run before
  runs,       \* number of runs started
  unreadable, \* paths whose entry.metadata() was Err in the running (or last) scan
  source,     \* the bulk metadata source of the walker: none, batch, nlw
  epc,        \* position of the walker: walk, callback, loop, page, find,
              \* enrich, yield, panic
  done,       \* condition of each directory whose callback has returned
  dirState,   \* condition of the directory of the running (or last) callback
  listing,    \* the entries the file system holds for that directory
  children,   \* `children`: the entries jwalk hands to the callback
  children0,  \* children as the callback received them
  handle,     \* `dir` of scan_dir, `handle` of list_dir_infos
  first,      \* `first` of scan_dir
  buf,        \* the entries of the page in `buf`
  off,        \* `off`: the entry of buf the inner loop is at
  rest,       \* the entries the enumeration has not returned yet
  out,        \* `out` of scan_dir, `infos` of list_dir_infos
  data,       \* `data` of list_dir_infos
  requests,   \* enumeration requests made in the running (or last) callback
  calls,      \* calls of the source made by the running (or last) callback
  result,     \* what the source returned to the callback
  opened      \* handles opened and not closed

catVars == <<files, disk, pc, now, timestamp, pre, seen, visited, report,
             outcome, prev, runs, unreadable>>

enumVars == <<source, epc, done, dirState, listing, children, children0,
              handle, first, buf, off, rest, out, data, requests, calls,
              result, opened>>

vars == <<catVars, enumVars>>

\* WIN32_FIND_DATAW::default(): no name
NoData ==
  [FileName |-> "", EndOfFile |-> 0, CreationTime |-> 0, LastWriteTime |-> 0,
   FileAttributes |-> 0]

\* nothing returned yet
NoResult == [ok |-> FALSE, entries |-> <<>>]

\* the walker before its first directory
InitWalker ==
  /\ epc = "walk"
  /\ done = <<>>
  /\ dirState = "present"
  /\ listing = <<>>
  /\ children = <<>>
  /\ children0 = <<>>
  /\ handle = "none"
  /\ first = TRUE
  /\ buf = <<>>
  /\ off = 0
  /\ rest = <<>>
  /\ out = <<>>
  /\ data = NoData
  /\ requests = 0
  /\ calls = 0
  /\ result = NoResult
  /\ opened = 0

InitCatalog ==
  /\ files = {}
  /\ disk = {}
  /\ pc = "idle"
  /\ now = 0
  /\ timestamp = 0
  /\ pre = {}
  /\ seen = {}
  /\ visited = {}
  /\ report = NoReport
  /\ outcome = "none"
  /\ prev = [outcome |-> "none", seen |-> {}, timestamp |-> 0]
  /\ runs = 0
  /\ unreadable = {}

\* files.db just created; main() of main.rs walks with jwalk alone
Init == InitCatalog /\ source = "none" /\ InitWalker

\* main, lines 248-278: open, begin the transaction, reset, read the clock
Begin ==
  /\ pc = "idle"
  /\ runs < MaxRuns
  /\ runs' = runs + 1
  /\ \E t \in (now + 1)..MaxNow :
       /\ now' = t
       /\ timestamp' = as_secs(t)
  /\ pre' = files
  /\ files' = ResetNew(files)
  /\ seen' = {}
  /\ unreadable' = {}
  /\ visited' = {}
  /\ report' = NoReport
  /\ prev' = IF outcome = "completed"
             THEN [outcome |-> outcome, seen |-> seen, timestamp |-> timestamp]
             ELSE [outcome |-> IF outcome = "sweepfailed" THEN "interrupted"
                               ELSE outcome,
                   seen |-> {}, timestamp |-> 0]
  /\ outcome' = "running"
  /\ pc' = "walk"
  /\ UNCHANGED disk
  /\ UNCHANGED enumVars

\* main, lines 280-300: the walk yields a regular file, which is upserted
WalkFile ==
  /\ pc = "walk"
  /\ \E p \in Paths \ visited, md \in MetadataResults :
       LET datei == process_dir_entry(p, md) IN
       /\ files' = Upsert(files, datei, timestamp)
       /\ seen' = seen \cup {datei}
       /\ visited' = visited \cup {p}
       /\ unreadable' = IF md.ok THEN unreadable ELSE unreadable \cup {p}
  /\ UNCHANGED <<disk, pc, now, timestamp, pre, report, outcome, prev, runs>>
  /\ UNCHANGED enumVars

\* main, lines 282-285 and 302: an entry that is no regular file, or an
\* error entry, is passed over
WalkSkip ==
  /\ pc = "walk"
  /\ \E p \in Paths \ visited : visited' = visited \cup {p}
  /\ UNCHANGED <<files, disk, pc, now, timestamp, pre, seen, report, outcome,
                 prev, runs, unreadable>>
  /\ UNCHANGED enumVars

\* main, lines 287-300: process_dir_entry or insert.execute returns Err; `?`
\* leaves main and the transaction is dropped uncommitted
UpsertFail ==
  /\ pc = "walk"
  /\ files' = Rollback(files, disk)
  /\ pc' = "idle"
  /\ outcome' = "rolledback"
  /\ visited' = {}
  /\ UNCHANGED <<disk, now, timestamp, pre, seen, report, prev, runs,
                 unreadable>>
  /\ UNCHANGED enumVars

\* main, lines 306-307: the walk is exhausted, the transaction commits
Commit ==
  /\ pc = "walk"
  /\ disk' = CommitTx(files, disk)
  /\ pc' = "report"
  /\ visited' = {}
  /\ UNCHANGED <<files, now, timestamp, pre, seen, report, outcome, prev, runs,
                 unreadable>>
  /\ UNCHANGED enumVars

\* write_to_file, lines 138-198, on a table that holds rows
Report ==
  /\ pc = "report"
  /\ files # {}
  /\ report' = [made |-> TRUE, err |-> FALSE, count |-> QueryCount(files),
                new |-> QueryNew(files),
                modified |-> QueryModified(files, timestamp),
                deleted |-> QueryDeleted(files, timestamp)]
  /\ pc' = "sweep"
  /\ UNCHANGED <<files, disk, now, timestamp, pre, seen, visited, outcome,
                 prev, runs, unreadable>>
  /\ UNCHANGED enumVars

\* write_to_file, lines 148-160, on an empty table: SUM(size) is NULL, reading
\* it as f64 is an error, and main returns it before the sweep
ReportFail ==
  /\ pc = "report"
  /\ files = {}
  /\ report' = [NoReport EXCEPT !.err = TRUE]
  /\ pc' = "idle"
  /\ outcome' = "interrupted"
  /\ UNCHANGED <<files, disk, now, timestamp, pre, seen, visited, prev, runs,
                 unreadable>>
  /\ UNCHANGED enumVars

\* main, line 311: the sweep, an autocommitted DELETE
SweepRows ==
  /\ pc = "sweep"
  /\ files' = Sweep(files, timestamp)
  /\ disk' = Sweep(files, timestamp)
  /\ pc' = "index"
  /\ outcome' = "completed"
  /\ UNCHANGED <<now, timestamp, pre, seen, visited, report, prev, runs,
                 unreadable>>
  /\ UNCHANGED enumVars

\* main, line 311: the DELETE returns Err; `?` leaves main and no row is
\* removed, the upserts stay committed
SweepFail ==
  /\ pc = "sweep"
  /\ pc' = "idle"
  /\ outcome' = "sweepfailed"
  /\ UNCHANGED <<files, disk, now, timestamp, pre, seen, visited, report, prev,
                 runs, unreadable>>
  /\ UNCHANGED enumVars

\* main, lines 314-316: create_index, then main returns Ok
CreateIndex ==
  /\ pc = "index"
  /\ pc' = "idle"
  /\ UNCHANGED <<files, disk, now, timestamp, pre, seen, visited, report,
                 outcome, prev, runs, unreadable>>
  /\ UNCHANGED enumVars

\* the process stops (panic, kill, power loss): the next open of files.db
\* shows the committed content
Crash ==
  /\ pc # "idle"
  /\ files' = Rollback(files, disk)
  /\ pc' = "idle"
  /\ outcome' = CASE pc = "walk" -> "rolledback"
                  [] pc = "index" -> "completed"
                  [] OTHER -> "interrupted"
  /\ visited' = {}
  /\ UNCHANGED <<disk, now, timestamp, pre, seen, report, prev, runs,
                 unreadable>>
  /\ UNCHANGED enumVars

Next ==
  \/ Begin
  \/ WalkFile
  \/ WalkSkip
  \/ UpsertFail
  \/ Commit
  \/ Report
  \/ ReportFail
  \/ SweepRows
  \/ SweepFail
  \/ CreateIndex
  \/ Crash

Spec == Init /\ [][Next]_vars

\* the Datei of PathA with readable metadata, as an earlier scan saw it
PriorDatei ==
  process_dir_entry(PathA,
    [ok |-> TRUE, len |-> 0, created |-> [ok |-> TRUE, secs |-> 1],
     modified |-> [ok |-> TRUE, secs |-> 1]])

\* the state after a first run of main() that read tick 1, observed PathA
\* and completed: the state Begin, WalkFile, Commit, Report, SweepRows and
\* CreateIndex lead to from Init, with the count of runs started anew
InitPrior ==
  /\ files = {Excluded(PriorDatei, as_secs(1))}
  /\ disk = {Excluded(PriorDatei, as_secs(1))}
  /\ pc = "idle"
  /\ now = 1
  /\ timestamp = as_secs(1)
  /\ pre = {}
  /\ seen = {PriorDatei}
  /\ visited = {}
  /\ report = [made |-> TRUE, err |-> FALSE, count |-> 1,
               new |-> {PriorDatei}, modified |-> {}, deleted |-> {}]
  /\ outcome = "completed"
  /\ prev = [outcome |-> "none", seen |-> {}, timestamp |-> 0]
  /\ runs = 0
  /\ unreadable = {}
  /\ source = "none"
  /\ InitWalker

\* the runs of main() that follow a completed scan
SpecPrior == InitPrior /\ [][Next]_vars

\* main, lines 280-300, when the walk yields once more an entry it has
\* already yielded (a directory listing that repeats a name): the same
\* Datei is upserted again
WalkAgain ==
  /\ pc = "walk"
  /\ \E datei \in seen : files' = Upsert(files, datei, timestamp)
  /\ UNCHANGED <<disk, pc, now, timestamp, pre, seen, visited, report, outcome,
                 prev, runs, unreadable>>
  /\ UNCHANGED enumVars

NextDup ==
  \/ Next
  \/ WalkAgain

\* the runs of main() over walks that may repeat a path
SpecDup == Init /\ [][NextDup]_vars

\* ---------------------------------------------------------------------
\* The bulk metadata sources and their enrichment callbacks
\* (src/batch.rs, src/nlw.rs)

\* directories one walk reads
MaxDirs == 2
\* entries of one directory listing besides "." and ".."
MaxEntries == 2
\* child entries jwalk hands to one callback
MaxChildren == 2
\* directory entries that fit the buffer of BUF bytes
PageCap == 2
\* largest file size of a listing
MaxEndOfFile == 2
\* the FILETIME of a file with a time stamp, in ticks since 1601
MaxFileTime == 3

\* filetime: ticks of a second (scaled)
TICKS == 2
\* filetime: seconds from 1601 to 1970 (scaled)
DELTA == 1

ChildNames == {"a", "b", "c"}
DotNames == {".", ".."}

\* a FILETIME of 0 is what a file system without that time stamp reports
FileTimes == {0, MaxFileTime}

\* FILE_ID_EXTD_DIR_INFO / WIN32_FIND_DATAW of one file
RawInfos ==
  [FileName : ChildNames, EndOfFile : 1..MaxEndOfFile,
   CreationTime : FileTimes, LastWriteTime : FileTimes, FileAttributes : {1}]

\* the entry of "." or ".."
DotInfo(n) ==
  [FileName |-> n, EndOfFile |-> 0, CreationTime |-> 0, LastWriteTime |-> 0,
   FileAttributes |-> 1]

DistinctNames(s) ==
  \A i \in 1..Len(s) : \A j \in 1..Len(s) :
    i # j => s[i].FileName # s[j].FileName

\* what a directory can hold: ".", "..", then files with distinct names
Listings ==
  {<<DotInfo("."), DotInfo("..")>> \o s :
     s \in {t \in UNION {[1..n -> RawInfos] : n \in 0..MaxEntries} :
              DistinctNames(t)}}

\* present: can be opened and listed; vanished: cannot be opened;
\* unlistable: can be opened, its listing fails
DirStates == {"present", "vanished", "unlistable"}

\* Meta::default() of batch.rs
DefaultMeta ==
  [size |-> 0, created |-> [secs |-> 0, nanos |-> 0],
   modified |-> [secs |-> 0, nanos |-> 0], attrs |-> 0]

\* BasicInfo::default() of nlw.rs
DefaultInfo == [size |-> 0, created |-> 0, modified |-> 0]

\* the client_state jwalk gives a new entry
DefaultState(src) == IF src = "batch" THEN DefaultMeta ELSE DefaultInfo

\* the children of a callback: Ok entries and Err entries, distinct names
ChildSeqs(src) ==
  {[i \in 1..Len(t) |->
      [ok |-> t[i].ok, file_name |-> t[i].file_name,
       client_state |-> DefaultState(src)]] :
     t \in {u \in UNION {[1..n -> [ok : BOOLEAN, file_name : ChildNames]] :
                           n \in 0..MaxChildren} :
              \A i \in 1..Len(u) : \A j \in 1..Len(u) :
                i # j => u[i].file_name # u[j].file_name}}

\* filetime: ok is FALSE when `ticks / TICKS - DELTA` leaves u64; a debug
\* build panics at the subtraction, a release build at the addition to
\* UNIX_EPOCH
filetime(ft) ==
  [ok |-> ft \div TICKS >= DELTA,
   secs |-> IF ft \div TICKS >= DELTA THEN ft \div TICKS - DELTA ELSE 0,
   nanos |-> (ft % TICKS) * 100]

\* scan_dir, lines 62-67: the Meta pushed for an entry
MetaOf(info) ==
  [size |-> info.EndOfFile,
   created |-> [secs |-> filetime(info.CreationTime).secs,
                nanos |-> filetime(info.CreationTime).nanos],
   modified |-> [secs |-> filetime(info.LastWriteTime).secs,
                 nanos |-> filetime(info.LastWriteTime).nanos],
   attrs |-> info.FileAttributes]

\* push_info, lines 98-110: the BasicInfo inserted for an entry
BasicInfoOf(d) ==
  [size |-> d.EndOfFile, created |-> d.CreationTime,
   modified |-> d.LastWriteTime]

\* a HashMap as the sequence of its pairs <<name, value>>
Has(m, n) == \E i \in 1..Len(m) : m[i][1] = n

\* HashMap::get; collecting a Vec keeps the last pair of a name
Get(m, n) ==
  m[CHOOSE i \in 1..Len(m) :
      m[i][1] = n /\ \A j \in (i + 1)..Len(m) : m[j][1] # n][2]

\* HashMap::insert
Insert(m, n, v) ==
  IF Has(m, n)
    THEN [i \in 1..Len(m) |-> IF m[i][1] = n THEN <<n, v>> ELSE m[i]]
    ELSE Append(m, <<n, v>>)

\* push_info: no name, "." and ".." are left out
push_info(map, d) ==
  IF d.FileName = "" \/ d.FileName \in DotNames
    THEN map
    ELSE Insert(map, d.FileName, BasicInfoOf(d))

\* the value of HANDLE::default()
HANDLE_default == "null"

\* CreateFileW: INVALID_HANDLE_VALUE when the directory cannot be opened
CreateFileW(st) == IF st = "vanished" THEN "invalid" ELSE "open"

\* a request that answers for any handle
GetFileInformationByHandleEx_any(h, st, src) == src # <<>>

\* GetFileInformationByHandleEx: TRUE when it filled the buffer
GetFileInformationByHandleEx(h, st, src) ==
  h = "open" /\ st = "present" /\ src # <<>>

\* the entries of the next page and the entries after it
PageOf(src) == SubSeq(src, 1, IF Len(src) < PageCap THEN Len(src) ELSE PageCap)
AfterPage(src) ==
  SubSeq(src, (IF Len(src) < PageCap THEN Len(src) ELSE PageCap) + 1, Len(src))

\* Result::unwrap_or_default
unwrap_or_default(r) == IF r.ok THEN r.entries ELSE <<>>

\* a merge that keeps the matched children only
enrich_matched(cs, m) ==
  SelectSeq([i \in 1..Len(cs) |->
               IF cs[i].ok /\ Has(m, cs[i].file_name)
                 THEN [cs[i] EXCEPT !.client_state = Get(m, cs[i].file_name)]
                 ELSE cs[i]],
            LAMBDA c : c.ok /\ Has(m, c.file_name))

\* batch.rs lines 107-114, nlw.rs lines 122-128: the merge into the children
enrich(cs, m) ==
  [i \in 1..Len(cs) |->
     IF cs[i].ok /\ Has(m, cs[i].file_name)
       THEN [cs[i] EXCEPT !.client_state = Get(m, cs[i].file_name)]
       ELSE cs[i]]

\* jwalk has read a directory and invokes process_read_dir
ReadDir ==
  /\ epc = "walk"
  /\ Len(done) < MaxDirs
  /\ \E st \in DirStates : \E l \in Listings : \E c \in ChildSeqs(source) :
       /\ dirState' = st
       /\ listing' = l
       /\ children' = c
       /\ children0' = c
  /\ epc' = "callback"
  /\ UNCHANGED <<source, done, handle, first, buf, off, rest, out, data,
                 requests, calls, result, opened>>
  /\ UNCHANGED catVars

\* scan_dir, lines 17-35: open the directory
scan_dir_open ==
  /\ epc = "callback"
  /\ source = "batch"
  /\ calls' = calls + 1
  /\ handle' = CreateFileW(dirState)
  /\ opened' = IF handle' = "open" THEN opened + 1 ELSE opened
  /\ IF handle' = HANDLE_default
       THEN /\ result' = [ok |-> FALSE, entries |-> <<>>]
            /\ epc' = "enrich"
       ELSE /\ result' = result
            /\ epc' = "loop"
  /\ first' = TRUE
  /\ out' = <<>>
  /\ UNCHANGED <<source, done, dirState, listing, children, children0, buf,
                 off, rest, data, requests>>
  /\ UNCHANGED catVars

\* scan_dir, lines 36-48 and 73: one request; the handle is not closed
scan_dir_request ==
  /\ epc = "loop"
  /\ requests' = requests + 1
  /\ LET src == IF first THEN listing ELSE rest
     IN IF GetFileInformationByHandleEx(handle, dirState, src)
          THEN /\ buf' = PageOf(src)
               /\ rest' = AfterPage(src)
               /\ first' = FALSE
               /\ off' = 1
               /\ epc' = "page"
               /\ result' = result
          ELSE /\ result' = [ok |-> TRUE, entries |-> out]
               /\ epc' = "enrich"
               /\ UNCHANGED <<buf, rest, first, off>>
  /\ UNCHANGED <<source, done, dirState, listing, children, children0, handle,
                 out, data, calls, opened>>
  /\ UNCHANGED catVars

\* scan_dir, lines 49-71: one entry of the page
scan_dir_entry ==
  /\ epc = "page"
  /\ LET info == buf[off]
     IN IF info.FileName \notin DotNames
             /\ ~(filetime(info.CreationTime).ok
                  /\ filetime(info.LastWriteTime).ok)
          THEN /\ epc' = "panic"
               /\ UNCHANGED <<out, off>>
          ELSE /\ out' = IF info.FileName \notin DotNames
                           THEN Append(out, <<info.FileName, MetaOf(info)>>)
                           ELSE out
               /\ IF off = Len(buf)
                    THEN epc' = "loop" /\ off' = off
                    ELSE epc' = "page" /\ off' = off + 1
  /\ UNCHANGED <<source, done, dirState, listing, children, children0, handle,
                 first, buf, rest, data, requests, calls, result, opened>>
  /\ UNCHANGED catVars

\* list_dir_infos, lines 50-73: FindFirstFileExW
list_dir_infos_first ==
  /\ epc = "callback"
  /\ source = "nlw"
  /\ calls' = calls + 1
  /\ requests' = requests + 1
  /\ out' = <<>>
  /\ IF dirState = "present" /\ listing # <<>>
       THEN /\ handle' = "open"
            /\ opened' = opened + 1
            /\ data' = Head(listing)
            /\ rest' = Tail(listing)
            /\ result' = result
            /\ epc' = "find"
       ELSE /\ handle' = "invalid"
            /\ result' = [ok |-> FALSE, entries |-> <<>>]
            /\ epc' = "enrich"
            /\ UNCHANGED <<opened, data, rest>>
  /\ UNCHANGED <<source, done, dirState, listing, children, children0, first,
                 buf, off>>
  /\ UNCHANGED catVars

\* list_dir_infos, lines 75-82: push_info, FindNextFileW, FindClose
list_dir_infos_next ==
  /\ epc = "find"
  /\ out' = push_info(out, data)
  /\ requests' = requests + 1
  /\ IF rest # <<>>
       THEN /\ data' = Head(rest)
            /\ rest' = Tail(rest)
            /\ UNCHANGED <<handle, opened, result, epc>>
       ELSE /\ handle' = "none"
            /\ opened' = opened - 1
            /\ result' = [ok |-> TRUE, entries |-> out']
            /\ epc' = "enrich"
            /\ UNCHANGED <<data, rest>>
  /\ UNCHANGED <<source, done, dirState, listing, children, children0, first,
                 buf, off, calls>>
  /\ UNCHANGED catVars

\* batch.rs lines 102-114, nlw.rs lines 121-129: the callback merges
process_read_dir ==
  /\ epc = "enrich"
  /\ children' =
       IF source = "batch"
         THEN enrich(children, unwrap_or_default(result))
         ELSE IF result.ok THEN enrich(children, result.entries)
                           ELSE children
  /\ epc' = "yield"
  /\ UNCHANGED <<source, done, dirState, listing, children0, handle, first,
                 buf, off, rest, out, data, requests, calls, result, opened>>
  /\ UNCHANGED catVars

\* batch.rs lines 117-121: the walk hands the entries of the directory to
\* its consumer; what the callback held is dropped
Yield ==
  /\ epc = "yield"
  /\ epc' = "walk"
  /\ done' = Append(done, dirState)
  /\ dirState' = "present"
  /\ listing' = <<>>
  /\ children' = <<>>
  /\ children0' = <<>>
  /\ handle' = "none"
  /\ first' = TRUE
  /\ buf' = <<>>
  /\ off' = 0
  /\ rest' = <<>>
  /\ out' = <<>>
  /\ data' = NoData
  /\ requests' = 0
  /\ calls' = 0
  /\ result' = NoResult
  /\ UNCHANGED <<source, opened>>
  /\ UNCHANGED catVars

NextEnum ==
  \/ ReadDir
  \/ scan_dir_open
  \/ scan_dir_request
  \/ scan_dir_entry
  \/ list_dir_infos_first
  \/ list_dir_infos_next
  \/ process_read_dir
  \/ Yield

\* a walk of batch.rs or of nlw.rs
InitEnum == InitCatalog /\ source \in {"batch", "nlw"} /\ InitWalker

SpecEnum == InitEnum /\ [][NextEnum]_vars

\* the names a listing holds besides "." and ".."
RECURSIVE FileNames(_)
FileNames(l) ==
  IF l = <<>> THEN <<>>
  ELSE IF Head(l).FileName \in DotNames THEN FileNames(Tail(l))
  ELSE <<Head(l).FileName>> \o FileNames(Tail(l))

\* the pages a listing spans
Pages(l) == (Len(l) + PageCap - 1) \div PageCap

\* the source has returned to the callback
Returned == epc \in {"enrich", "yield"}

\* ---------------------------------------------------------------- helpers
\* the upserts of the running (or last) run are in `files`
Applied == outcome \in {"running", "interrupted", "sweepfailed", "completed"}

\* the run before this one completed, so the two scans are in succession
InSuccession == prev.outcome = "completed"

Keys(t) == {Key(r) : r \in t}

\* size or modified of the stored row r differs from the observed d
Differs(r, d) == r.size # d.size \/ r.modified # d.modified

\* ------------------------------------------------------------------ claims

\* C1 - Idempotence: when two scans run in succession and the second one
\* observes exactly what the first one observed, the report of the second
\* scan has an empty new set, an empty modified set and an empty deleted set.
C1_Idempotence ==
  (InSuccession /\ report.made /\ seen = prev.seen)
    => (report.new = {} /\ report.modified = {} /\ report.deleted = {})

\* C2 - Modification detection: a path that had a row before the scan and is
\* observed with another size or modified time has, once upserted, a row with
\* timestamp = the scan's generation and new = 0; the report of that scan
\* lists it as modified and not as new.
C2_ModificationDetection ==
  Applied =>
    \A d \in seen : \A r \in pre :
      (Key(r) = Key(d) /\ Differs(r, d)) =>
        /\ \E x \in files :
             Key(x) = Key(d) /\ x.timestamp = timestamp /\ x.new = 0
        /\ report.made =>
             (d \in report.modified /\ Key(d) \notin Keys(report.new))

C2_Witness ==
  /\ report.made
  /\ InSuccession
  /\ timestamp # prev.timestamp
  /\ \E d \in seen : \E r \in pre :
       Key(r) = Key(d) /\ r.size = d.size /\ r.modified # d.modified
         /\ d \in report.modified

\* C3 - Deletion sweep: once the sweep of a scan has run, the table holds
\* exactly the rows of the paths that scan observed, each with last_seen =
\* the scan's generation, and a path with a row before the scan that was not
\* observed has no row.
C3_DeletionSweep ==
  outcome = "completed" =>
    /\ {process_row(r) : r \in files} = seen
    /\ \A r \in files : r.last_seen = timestamp
    /\ \A r \in pre : Key(r) \notin Keys(seen) => Key(r) \notin Keys(files)

\* C4 - Rename detection: when, between two scans in succession, path p is
\* replaced by path q with the same size and modified time, the second scan
\* reports the row of p as deleted and sweeps it, inserts q with new = 1 and
\* reports it as new, and reports neither p nor q as modified.
C4_RenameDetection ==
  (InSuccession /\ outcome = "completed") =>
    \A dp \in prev.seen : \A dq \in seen :
      ( /\ dp.path # dq.path
        /\ dp.size = dq.size /\ dp.modified = dq.modified
        /\ dp.path \notin {d.path : d \in seen}
        /\ dq.path \notin {d.path : d \in prev.seen} )
      =>
        /\ Key(dp) \in Keys(report.deleted)
        /\ Key(dp) \notin Keys(files)
        /\ \E x \in files : Key(x) = Key(dq) /\ x.new = 1
        /\ dq \in report.new
        /\ Key(dp) \notin Keys(report.modified)
        /\ Key(dq) \notin Keys(report.modified)

\* C5 - Once the upserts of a scan are applied, and so after the scan
\* completes, a row has new = 1 exactly when no row with its (hash, path)
\* was in the table before that scan began.
C5_NewIffAbsentBefore ==
  Applied =>
    \A r \in files : (r.new = 1) <=> (Key(r) \notin Keys(pre))

C5_Witness ==
  /\ outcome = "completed"
  /\ \E r \in files : r.new = 1
  /\ \E r \in files : r.new = 0 /\ Key(r) \in Keys(pre)
  /\ \E r \in pre : r.new = 1

\* C6 - Crash safety: when a scan ends before its transaction commits (an
\* upsert fails or the process stops), the table, as the connection and as
\* the database file show it, equals the table before the scan began, in
\* every row and column.
C6_CrashSafety ==
  outcome = "rolledback" => (files = pre /\ disk = pre)

C6_Witness ==
  /\ outcome = "rolledback"
  /\ pre # {}
  /\ \E r \in pre : r.new = 1
  /\ \E d \in seen : \E r \in pre : Key(r) = Key(d) /\ Differs(r, d)
  /\ \E d \in seen : Key(d) \notin Keys(pre)

\* C7 - In every reachable state the table, as the connection and as the
\* database file show it, has at most one row per (hash, path): after any
\* sequence of scans, after a scan that upserts a path more than once, and
\* after a scan that fails or stops at any point.
C7_OneRowPerKey ==
  /\ \A r1 \in files : \A r2 \in files : Key(r1) = Key(r2) => r1 = r2
  /\ \A r1 \in disk : \A r2 \in disk : Key(r1) = Key(r2) => r1 = r2

\* a later scan over a table that holds both paths has upserted twice a
\* path that had no row before it (the second upsert cleared new) and has
\* upserted a path that had one
C7_Witness ==
  /\ runs = MaxRuns
  /\ pc = "walk"
  /\ pre # {}
  /\ \E r \in files : Key(r) \notin Keys(pre) /\ r.new = 0
  /\ \E r \in files : Key(r) \in Keys(pre) /\ r.last_seen = timestamp
  /\ \E r1 \in files : \E r2 \in files : r1.hash = r2.hash /\ r1.path # r2.path

\* C8 - Monotonic generations: a row that survives from one completed scan
\* to the next has, after the later scan, a last_seen strictly greater than
\* after the earlier scan.
C8_MonotonicGenerations ==
  (InSuccession /\ outcome = "completed") =>
    \A r \in files : \A x \in pre : Key(r) = Key(x) => r.last_seen > x.last_seen

\* C9 - While the upserts of a generation are applied no row has new = 1
\* with a timestamp of another generation: a row with new = 1 has timestamp =
\* last_seen = the generation, and the new set and the modified set of the
\* report share no row.
C9_NewHasCurrentGeneration ==
  /\ \A r \in files : r.new = 1 => r.timestamp = r.last_seen
  /\ Applied =>
       \A r \in files :
         r.new = 1 => (r.timestamp = timestamp /\ r.last_seen = timestamp)
  /\ Keys(report.new) \cap Keys(report.modified) = {}

C9_Witness ==
  /\ report.made
  /\ InSuccession
  /\ timestamp # prev.timestamp
  /\ report.new # {}
  /\ report.modified # {}
  /\ \E r \in files : r.new = 1 /\ r.timestamp = timestamp

\* C10 - An upsert that hits an existing row sets timestamp to the current
\* generation when the stored size or modified differs from the observed
\* one and leaves timestamp as it was otherwise (also when created differs),
\* and overwrites size, created, modified, plen, flen and last_seen.
C10_UpsertFrame ==
  [][ (pc = "walk" /\ pc' = "walk" /\ seen' # seen) =>
        \A d \in seen' \ seen : \A r \in files :
          Key(r) = Key(d) =>
            \E x \in files' :
              /\ Key(x) = Key(d)
              /\ x.timestamp = IF Differs(r, d) THEN timestamp ELSE r.timestamp
              /\ x.size = d.size /\ x.created = d.created
              /\ x.modified = d.modified
              /\ x.plen = d.plen /\ x.flen = d.flen
              /\ x.last_seen = timestamp
              /\ files' \ {x} = files \ {r} ]_vars

C10_Witness ==
  /\ pc = "walk"
  /\ \E d \in seen : \E r \in pre : \E x \in files :
       /\ Key(r) = Key(d) /\ Key(x) = Key(d)
       /\ ~Differs(r, d)
       /\ r.created # d.created
       /\ x.created = d.created
       /\ x.timestamp = r.timestamp
       /\ x.timestamp # timestamp
       /\ x.last_seen = timestamp

\* C11 - A file whose metadata cannot be read does not abort the scan: its
\* Datei has size = created = modified = 0, the row is upserted like any
\* other (it is in the table with last_seen = the generation), the walk
\* goes on and the transaction can commit.
C11_UnreadableDegrades ==
  /\ Applied =>
       \A p \in unreadable :
         \E r \in files :
           /\ r.path = p /\ r.hash = xxh3_64(p)
           /\ r.size = 0 /\ r.created = 0 /\ r.modified = 0
           /\ r.last_seen = timestamp
           /\ process_row(r) \in seen
  /\ (pc = "walk" /\ unreadable # {}) => ENABLED Commit
  /\ unreadable # {} => outcome # "none"

C11_Witness ==
  /\ outcome = "completed"
  /\ unreadable = {PathA}
  /\ \E d \in seen : d.path = PathB /\ d.size = MaxSize
  /\ \E r \in files : r.path = PathA /\ r.size = 0 /\ r.modified = 0

\* C12 - An existing row whose observation in a scan is the zero-valued
\* marker of a failed metadata read is treated as changed: its timestamp is
\* the generation of that scan and the report of that scan lists it as
\* modified, whatever was stored for it before.
C12_ZeroMarkerIsChanged ==
  (Applied /\ report.made) =>
    \A p \in unreadable : \A r \in pre :
      r.path = p =>
        /\ \E x \in files : x.path = p /\ x.timestamp = timestamp
        /\ \E d \in report.modified : d.path = p

\* C16 - The Diff Reporter completes successfully when result sets are
\* empty: write_to_file returns no error, also when the table holds no rows,
\* and each classification query with no row yields None from build_table
\* and a table otherwise.
C16_ReporterHandlesEmpty ==
  /\ ~report.err
  /\ report.made =>
       /\ build_table(report.new).some <=> report.new # {}
       /\ build_table(report.modified).some <=> report.modified # {}
       /\ build_table(report.deleted).some <=> report.deleted # {}

\* C17 - The deleted set reported for a generation is exactly the set of
\* rows the sweep of that scan removes: every row the sweep removes was
\* reported as deleted and every row reported as deleted is removed.
C17_DeletedIsSwept ==
  [][ (pc = "sweep" /\ pc' = "index") =>
        /\ {process_row(r) : r \in files \ files'} = report.deleted
        /\ Keys(report.deleted) \cap Keys(files') = {}
        /\ files' \subseteq files
        /\ disk' = files' ]_vars

C17_Witness ==
  /\ pc = "index"
  /\ report.deleted # {}
  /\ files # {}
  /\ Keys(report.deleted) \cap Keys(files) = {}
  /\ \E r \in pre : Key(r) \in Keys(report.deleted)

\* C18 - Every read of the Diff Reporter for a generation
\* happens after the sweep of that generation has committed, so that the
\* rows it counts are the rows that survive the sweep.
C18_ReadsAfterSweep ==
  report.made =>
    /\ outcome = "completed"
    /\ report.count = QueryCount(Sweep(files, timestamp))

\* C19 - Upsert and Sweep of a scan form one all-or-nothing transaction:
\* when the sweep fails, the upserts of that generation are rolled back and
\* the table equals the table before the scan.
C19_SweepAtomicWithUpserts ==
  outcome = "sweepfailed" => (files = pre /\ disk = pre)

\* C20 - When the run before committed its upserts and stopped before its
\* sweep, a scan of a later generation that completes reports as deleted and
\* removes every row it did not observe, the rows left stale by the stopped
\* run included; after it every row has last_seen = its generation.
C20_NextScanSweepsStale ==
  (prev.outcome = "interrupted" /\ outcome = "completed"
     /\ \A r \in pre : r.last_seen < timestamp) =>
    /\ \A r \in pre :
         Key(r) \notin Keys(seen) =>
           (process_row(r) \in report.deleted /\ Key(r) \notin Keys(files))
    /\ \A r \in files : r.last_seen = timestamp
    /\ {process_row(r) : r \in files} = seen

\* the stopped run left a row of an older generation unswept and added a row
\* of its own; the completed scan observed neither and removed both
C20_Witness ==
  /\ prev.outcome = "interrupted"
  /\ outcome = "completed"
  /\ \E r1 \in pre : \E r2 \in pre :
       /\ r1.last_seen < r2.last_seen /\ r2.last_seen < timestamp
       /\ Key(r1) \notin Keys(seen) /\ Key(r2) \notin Keys(seen)
       /\ process_row(r1) \in report.deleted
       /\ process_row(r2) \in report.deleted
  /\ files = {}

\* what the callback looked its children up in
ReturnedMap ==
  IF source = "batch" THEN unwrap_or_default(result) ELSE result.entries

\* C13 - The enrichment callback calls the Bulk Metadata Source exactly once
\* for its directory, and when it returns every child entry carries the
\* source's metadata for its name if the name is in the returned mapping and
\* the default metadata otherwise; the children are the same entries in the
\* same order, and an unmatched entry raises no error.
C13_EnrichByName ==
  /\ epc \in {"loop", "page", "find", "enrich", "yield"} => calls = 1
  /\ epc = "yield" =>
       /\ Len(children) = Len(children0)
       /\ \A i \in 1..Len(children) :
            /\ children[i].file_name = children0[i].file_name
            /\ children[i].ok = children0[i].ok
            /\ children[i].ok =>
                 children[i].client_state =
                   IF \E k \in 1..Len(ReturnedMap) :
                        ReturnedMap[k][1] = children[i].file_name
                     THEN LET k == CHOOSE k \in 1..Len(ReturnedMap) :
                                     ReturnedMap[k][1] = children[i].file_name
                          IN ReturnedMap[k][2]
                     ELSE DefaultState(source)
  /\ epc = "enrich" => ENABLED process_read_dir

\* a matched child after an unmatched one, both kept in place
C13_Witness ==
  /\ epc = "yield"
  /\ Len(children) = 2
  /\ children[1].ok /\ children[2].ok
  /\ children[1].client_state = DefaultState(source)
  /\ children[2].client_state # DefaultState(source)
  /\ Len(ReturnedMap) = 2

\* C14 - For a directory with N children the Bulk Metadata Source returns
\* metadata for every one of the N children exactly once and never for "."
\* or "..", however many pages the listing spans; the requests scan_dir makes
\* are the pages plus one.
C14_EveryChildOnce ==
  /\ epc # "panic"
  /\ (Returned /\ dirState = "present") =>
       /\ result.ok
       /\ [i \in 1..Len(result.entries) |-> result.entries[i][1]]
            = FileNames(listing)
       /\ \A i \in 1..Len(result.entries) :
            \E j \in 1..Len(listing) :
              /\ listing[j].FileName = result.entries[i][1]
              /\ result.entries[i][2].size = listing[j].EndOfFile
       /\ source = "batch" => requests = Pages(listing) + 1

C21_HandlesClosed ==
  (Returned \/ epc = "walk") => opened = 0

====
